---- MODULE Spec2Model ----
(***************************************************************************)
(* flac2alac-batch (src/main.rs): batch conversion FLAC -> ALAC.           *)
(*                                                                         *)
(* The model follows one session of the program on one filesystem: either  *)
(* a sequence of command-line invocations (main -> run_cli) or one GUI     *)
(* session (FlacConverterApp) in which Convert is clicked several times.   *)
(* process_one is split at its blocking points (the read from stdin, the   *)
(* transcoder subprocess, the two decoder subprocesses), so that tasks of  *)
(* the rayon pool interleave there.                                        *)
(***************************************************************************)
EXTENDS Naturals, Sequences, FiniteSets, TLC

(***************************************************************************)
(* Bounds of the model.                                                    *)
(***************************************************************************)
\* Runs (CLI invocations, or accepted Convert clicks) in one session.
MaxRuns == 2
\* Largest value of --jobs / of the "Parallel jobs" slider that is explored.
MaxJobs == 1
\* Threads rayon gives its global pool when no number is asked for.
NumCpus == 2
\* Option::None of a string, of a path, of a digest.
None == "none"

NoRoot == <<>>

NoDigest == <<>>

(***************************************************************************)
(* Paths.  A path is a directory (sequence of components) and a file name; *)
(* a file name is the sequence of its dot-separated segments, so that      *)
(* <<"c", "d", "flac">> is the name c.d.flac.                              *)
(***************************************************************************)
InRoot == <<"in">>

\* str::eq_ignore_ascii_case works on the ASCII lower-casing of both sides.
to_ascii_lowercase(s) ==
    CASE s = "FLAC" -> "flac"
      [] s = "Flac" -> "flac"
      [] s = "M4A"  -> "m4a"
      [] s = "TXT"  -> "txt"
      [] s = "OUI"  -> "oui"
      [] s = "Oui"  -> "oui"
      [] s = "Y"    -> "y"
      [] s = "O"    -> "o"
      [] OTHER      -> s

eq_ignore_ascii_case(a, b) == to_ascii_lowercase(a) = to_ascii_lowercase(b)

\* Path::extension / Path::file_stem split the name at its last dot; a name
\* whose only dot is the leading one (".flac") has no extension.
has_extension(name) == Len(name) >= 2 /\ ~(Len(name) = 2 /\ name[1] = "")

extension(name) == IF has_extension(name) THEN name[Len(name)] ELSE None

file_stem(name) == IF has_extension(name) THEN SubSeq(name, 1, Len(name) - 1) ELSE name

\* PathBuf::set_extension: the stem of the current name, then the extension.
set_extension(p, ext) == [dir |-> p.dir, name |-> file_stem(p.name) \o <<ext>>]

\* Path::with_file_name
with_file_name(p, name) == [dir |-> p.dir, name |-> name]

\* The source entries a directory walk can meet: where each lies below the
\* input directory, its name, whether it is a regular file, and what the
\* external tool makes of its content:
\*   good       transcodes, and decodes to the same PCM as its ALAC
\*   drift      transcodes, but the ALAC decodes to other PCM
\*   corrupt    the transcoder fails before it writes anything
\*   truncated  the transcoder fails after it has written part of the output
Candidates ==
    << [rel |-> <<>>,      name |-> <<"a", "flac">>,      regular |-> TRUE, content |-> "good"],
       [rel |-> <<>>,      name |-> <<"a", "FLAC">>,      regular |-> TRUE, content |-> "truncated"],
       [rel |-> <<>>,      name |-> <<"b", "flac">>,      regular |-> TRUE, content |-> "corrupt"],
       [rel |-> <<"sub">>, name |-> <<"c", "d", "flac">>, regular |-> TRUE, content |-> "drift"],
       [rel |-> <<>>,      name |-> <<"notes", "txt">>,   regular |-> TRUE, content |-> "good"],
       [rel |-> <<"sub">>, name |-> <<"e", "flac">>,      regular |-> TRUE, content |-> "truncated"] >>

\* Input trees, each the set of entries present; the walk meets them in the
\* order above.  An empty directory; one good file; a file whose ALAC
\* decodes differently beside a file that is no FLAC; two files that differ
\* in the casing of the extension; a good file beside a corrupt one; two
\* files that both fail to transcode.
Trees == {{}, {1}, {4, 5}, {1, 2}, {1, 3}, {3, 6}}

\* --output: absent, a directory that can be created, or one that cannot
\* (below a read-only mount).
OutRoots == {NoRoot, <<"out">>, <<"ro">>}

SrcPath(e) == [dir |-> InRoot \o Candidates[e].rel, name |-> Candidates[e].name]

default_out_path(file, out_root) ==
    LET stem == file_stem(file.name)
        out  == IF out_root # NoRoot THEN [dir |-> out_root, name |-> stem]
                                   ELSE with_file_name(file, stem)
    IN  set_extension(out, "m4a")

\* file.strip_prefix(in_root): the walk only yields paths below in_root.
strip_prefix(file, in_root) ==
    [dir |-> SubSeq(file.dir, Len(in_root) + 1, Len(file.dir)), name |-> file.name]

map_to_out(file, in_root, out_root) ==
    IF out_root # NoRoot
    THEN LET rel == strip_prefix(file, in_root)
         IN  set_extension([dir |-> out_root \o rel.dir, name |-> rel.name], "m4a")
    ELSE default_out_path(file, NoRoot)

\* The walk's filter: a regular file whose extension is "flac" in any casing.
is_flac(e) ==
    /\ Candidates[e].regular
    /\ extension(Candidates[e].name) # None
    /\ eq_ignore_ascii_case(extension(Candidates[e].name), "flac")

RECURSIVE walk(_, _, _)
walk(tree, out_root, e) ==
    IF e > Len(Candidates) THEN <<>>
    ELSE (IF e \in tree /\ is_flac(e)
          THEN << [src |-> e, out |-> map_to_out(SrcPath(e), InRoot, out_root)] >>
          ELSE <<>>) \o walk(tree, out_root, e + 1)

\* collect_tasks, (input_flac, output_m4a) pairs.  input is 0 for the input
\* directory itself, or the entry e for the single file e given as --input.
collect_tasks(input, tree, out_root) ==
    IF input # 0
    THEN (IF input \in tree /\ is_flac(input)
          THEN << [src |-> input, out |-> default_out_path(SrcPath(input), out_root)] >>
          ELSE <<>>)
    ELSE walk(tree, out_root, 1)

\* What the session is given: front end, input tree, --input, --output.
\* A single file is given as input only in a tree that holds just that file.
Sessions ==
    {s \in [frontend : {"cli", "gui"}, tree : Trees,
            input : 0..Len(Candidates), out_root : OutRoots] :
        s.input # 0 => s.tree = {s.input}}

(***************************************************************************)
(* The external world: the operator at stdin, ffmpeg, the filesystem.      *)
(***************************************************************************)
\* Lines the operator types at the overwrite prompt, already trimmed; "" is
\* also what buf holds after a failed read.
Answers == {"y", "OUI", ""}

OverwriteMode == {"Skip", "Prompt", "Replace"}

\* Path::exists
exists(f, path) == path \in DOMAIN f

\* fs::create_dir_all(parent): a directory below the input root holds a
\* source file and exists; one below the output root is created unless that
\* root cannot be.
create_dir_all_ok(d, dir) == dir \in d \/ dir[1] # "ro"

\* ffmpeg ... -y -i input output: the exit status and whether output was
\* written depend on the content of the source.
ffmpeg_success(e) == Candidates[e].content \in {"good", "drift"}

ffmpeg_writes(e) == Candidates[e].content \in {"good", "drift", "truncated"}

\* pcm_sha256_from: NoDigest when the decoder fails, else the digest, named by
\* the source whose audio it is.
pcm_sha256_from_flac(e) ==
    IF Candidates[e].content \in {"good", "drift"} THEN <<"pcm", e>> ELSE NoDigest

\* The ALAC file at path was last written from source f[path].
pcm_sha256_from_alac(f, path) ==
    IF ~exists(f, path) THEN NoDigest
    ELSE CASE Candidates[f[path]].content = "good"  -> <<"pcm", f[path]>>
           [] Candidates[f[path]].content = "drift" -> <<"pcm", f[path], "drift">>
           [] OTHER                                  -> NoDigest

\* verify_bitperfect: "err" when a decoder fails, else h1 == h2.
verify_bitperfect(f, e, path) ==
    LET h1 == pcm_sha256_from_flac(e)
        h2 == pcm_sha256_from_alac(f, path)
    IN  IF h1 = NoDigest \/ h2 = NoDigest THEN "err" ELSE IF h1 = h2 THEN "true" ELSE "false"

(***************************************************************************)
(* State.                                                                  *)
(***************************************************************************)
VARIABLES
    session,        \* front end, input tree, --input, --output of the session
    fs,             \* destination files: path -> the source last written there
    dirs,           \* output directories created so far
    pool,           \* threads of rayon's global pool; 0 while it is not built
    opt,            \* jobs, verify, overwrite, dry_run of the current run
    stdin,          \* the line the operator answers every prompt of this run with
    is_converting,  \* FlacConverterApp::is_converting
    status,         \* the ConversionStatus behind conversion_status
    phase,          \* "idle", "spawned", "workers", "finished"
    tasks,          \* the Vec collect_tasks returned to the current run
    pc,             \* where each task of the run is
    outcome,        \* how process_one returned for each task
    exit,           \* what run_cli returned
    runs,           \* runs started in the session
    log,            \* per task of the run: what process_one did (history)
    start,          \* fs and dirs when the run started (history)
    prev,           \* the run before this one (history)
    pre             \* the precondition checks the run has made (history)

vars == <<session, fs, dirs, pool, opt, stdin, is_converting, status, phase,
          tasks, pc, outcome, exit, runs, log, start, prev, pre>>

\* #[derive(Default)] ConversionStatus
ConversionStatus_default ==
    [total_files |-> 0, completed_files |-> 0, current_file |-> 0,
     errors |-> <<>>, is_done |-> FALSE]

NoExit == [kind |-> "none", failed |-> 0]

NoLog == [calls |-> 0, reads |-> 0, reports |-> 0, mkdirs |-> 0, ffmpeg |-> 0, verifies |-> 0]

\* Of the run before: whether it was a real (not simulated) run with policy
\* Skip that got past its preconditions, and if so the sources it converted
\* or skipped.
NoPrev == [skip_run |-> FALSE, ok |-> {}]

NoOutcome == [kind |-> "none", why |-> ""]

\* Of the run's preconditions: how often ensure_ffmpeg_available and
\* collect_tasks were called, and whether `ffmpeg -version` succeeded.
NoPre == [tool |-> 0, discovery |-> 0, available |-> FALSE]

\* ensure_ffmpeg_available()? and, when it is Ok, collect_tasks(..)?
checked(ffmpeg) ==
    [tool |-> 1, discovery |-> IF ffmpeg THEN 1 ELSE 0, available |-> ffmpeg]

\* impl Default for FlacConverterApp: the fields a run reads.
DefaultJobs == 4

FlacConverterApp_default ==
    [jobs |-> <<DefaultJobs>>, verify |-> FALSE, overwrite |-> "Skip", dry_run |-> FALSE]

\* Args of the command line, fields of the window.  jobs is <<>> for no
\* --jobs and <<j>> for --jobs j; the slider always holds a number, 4 until
\* it is moved.  verify is read only by a run that is not simulated (after
\* the dry-run return of process_one), so simulated runs are explored with
\* verify unset.
Options(jobs) ==
    {o \in [jobs : jobs, verify : BOOLEAN, overwrite : OverwriteMode, dry_run : BOOLEAN] :
        o.dry_run => ~o.verify}

CliOptions == Options({<<>>} \cup {<<j>> : j \in 1..MaxJobs})

GuiOptions == Options({<<DefaultJobs>>} \cup {<<j>> : j \in 1..MaxJobs})

Tasks == 1..Len(tasks)

\* Tasks a pool thread is busy with: picked up, not yet handed back.
Busy == {t \in Tasks : pc[t] \in {"prompt", "convert", "verify", "finish"}}

\* Tasks inside process_one.
InProcessOne == {t \in Tasks : pc[t] \in {"prompt", "convert", "verify"}}

\* The threads par_iter runs on: the global pool as built, or rayon's own
\* number when nothing built it before its first use.
PoolThreads == IF pool = 0 THEN NumCpus ELSE pool

\* ThreadPoolBuilder::new().num_threads(j).build_global().ok(): builds the
\* pool the first time in a process; later calls fail and .ok() drops the error.
num_threads(j) == IF j = 0 THEN NumCpus ELSE j

build_global(j) == IF pool = 0 THEN num_threads(j) ELSE pool

Init ==
    /\ session \in Sessions
    /\ fs = [p \in {} |-> 0]
    /\ dirs = {}
    /\ pool = 0
    /\ opt = FlacConverterApp_default
    /\ stdin = ""
    /\ is_converting = FALSE
    /\ status = ConversionStatus_default
    /\ phase = "idle"
    /\ tasks = <<>>
    /\ pc = <<>>
    /\ outcome = <<>>
    /\ exit = NoExit
    /\ runs = 0
    /\ log = <<>>
    /\ start = [fs |-> [p \in {} |-> 0], dirs |-> {}]
    /\ prev = NoPrev
    /\ pre = NoPre

(***************************************************************************)
(* Starting a run.                                                         *)
(***************************************************************************)
\* What a run that is starting remembers of the one before it.
Remember ==
    IF phase = "finished" /\ tasks # <<>> /\ opt.overwrite = "Skip" /\ ~opt.dry_run
    THEN [skip_run |-> TRUE,
          ok |-> {tasks[t].src : t \in {u \in 1..Len(tasks) : outcome[u].kind # "Failed"}}]
    ELSE NoPrev

\* The operator's line matters only to a run that can prompt.
Lines(o) == IF o.overwrite = "Prompt" /\ ~o.dry_run THEN Answers ELSE {""}

\* A run begins: its options, and what is kept of the past.
Began(o, line) ==
    /\ opt' = o
    /\ stdin' = line
    /\ runs' = runs + 1
    /\ start' = [fs |-> fs, dirs |-> dirs]
    /\ prev' = Remember

\* The task list is installed and the workers may start.
Schedule(ts) ==
    /\ tasks' = ts
    /\ pc' = [t \in 1..Len(ts) |-> "queued"]
    /\ outcome' = [t \in 1..Len(ts) |-> NoOutcome]
    /\ log' = [t \in 1..Len(ts) |-> NoLog]

\* Mutant of run_cli_begin: the result of ensure_ffmpeg_available is dropped.
run_cli_begin_ignores_tool_check(o, line, ffmpeg) ==
    /\ session.frontend = "cli"
    /\ phase \in {"idle", "finished"}
    /\ runs < MaxRuns
    /\ Began(o, line)
    /\ pool' = IF o.jobs # <<>> THEN num_threads(o.jobs[1]) ELSE 0
    /\ pre' = checked(ffmpeg)
    /\ LET ts == collect_tasks(session.input, session.tree, session.out_root)
       IN  IF ts = <<>>
           THEN /\ exit' = [kind |-> "NoInputFiles", failed |-> 0]
                /\ phase' = "finished"
                /\ Schedule(<<>>)
           ELSE /\ exit' = NoExit
                /\ phase' = "workers"
                /\ Schedule(ts)
    /\ UNCHANGED <<session, fs, dirs, is_converting, status>>

\* main and run_cli up to the parallel map: a new process, so a new pool.
\* ffmpeg is whether `ffmpeg -version` succeeds.
run_cli_begin(o, line, ffmpeg) ==
    /\ session.frontend = "cli"
    /\ phase \in {"idle", "finished"}
    /\ runs < MaxRuns
    /\ Began(o, line)
    /\ pool' = IF o.jobs # <<>> THEN num_threads(o.jobs[1]) ELSE 0
    /\ pre' = checked(ffmpeg)
    /\ LET ts == collect_tasks(session.input, session.tree, session.out_root)
       IN  IF ~ffmpeg
           THEN /\ exit' = [kind |-> "ToolUnavailable", failed |-> 0]
                /\ phase' = "finished"
                /\ Schedule(<<>>)
           ELSE IF ts = <<>>
           THEN /\ exit' = [kind |-> "NoInputFiles", failed |-> 0]
                /\ phase' = "finished"
                /\ Schedule(<<>>)
           ELSE /\ exit' = NoExit
                /\ phase' = "workers"
                /\ Schedule(ts)
    /\ UNCHANGED <<session, fs, dirs, is_converting, status>>

\* FlacConverterApp::start_conversion
start_conversion(o, line) ==
    /\ is_converting' = TRUE
    /\ status' = ConversionStatus_default
    /\ phase' = "spawned"
    /\ Began(o, line)
    /\ Schedule(<<>>)
    /\ pre' = NoPre
    /\ UNCHANGED <<session, fs, dirs, pool, exit>>

\* Mutant of update: Convert starts a run also while is_converting.
update_starts_while_converting(click) ==
    /\ session.frontend = "gui"
    /\ IF click /\ runs < MaxRuns
       THEN \E o \in GuiOptions : \E line \in Lines(o) : start_conversion(o, line)
       ELSE /\ is_converting' =
                  IF status.total_files > 0 /\ status.is_done THEN FALSE ELSE is_converting
            /\ UNCHANGED <<session, fs, dirs, pool, opt, stdin, status, phase, tasks,
                           pc, outcome, exit, runs, log, start, prev, pre>>

\* eframe::App::update, one frame: the widgets set the fields, Convert may
\* be clicked, the progress display reads the status under its lock.  The
\* fields are set in the frame whose click starts a run, so the values the
\* run copies are the fields.  input_folder holds the session's input and
\* is never empty; a click is counted against MaxRuns.
update(click) ==
    /\ session.frontend = "gui"
    /\ IF click /\ ~is_converting /\ runs < MaxRuns
       THEN \E o \in GuiOptions : \E line \in Lines(o) : start_conversion(o, line)
       ELSE /\ is_converting' =
                  IF status.total_files > 0 /\ status.is_done THEN FALSE ELSE is_converting
            /\ UNCHANGED <<session, fs, dirs, pool, opt, stdin, status, phase, tasks,
                           pc, outcome, exit, runs, log, start, prev, pre>>

\* run_conversion_thread up to the parallel map, and the closure of
\* start_conversion when it returns Err.
run_conversion_thread_begin(ffmpeg) ==
    /\ session.frontend = "gui"
    /\ phase = "spawned"
    /\ pool' = build_global(opt.jobs[1])
    /\ pre' = checked(ffmpeg)
    /\ LET ts == collect_tasks(session.input, session.tree, session.out_root)
       IN  IF ~ffmpeg \/ ts = <<>>
           THEN /\ status' = [status EXCEPT
                        !.errors = Append(@, [src |-> 0, msg |->
                                    IF ~ffmpeg THEN "ToolUnavailable" ELSE "NoInputFiles"]),
                        !.is_done = TRUE]
                /\ phase' = "finished"
                /\ UNCHANGED <<tasks, pc, outcome, log>>
           ELSE /\ status' = [status EXCEPT !.total_files = Len(ts)]
                /\ phase' = "workers"
                /\ Schedule(ts)
    /\ UNCHANGED <<session, fs, dirs, opt, stdin, is_converting, exit, runs, start, prev>>

(***************************************************************************)
(* One task on a pool thread: the closure of the parallel map around       *)
(* process_one.                                                            *)
(***************************************************************************)
\* process_one returns: Ok(()) for Success and Skipped, Err for Failed.
Return(t, kind, why) ==
    /\ pc' = [pc EXCEPT ![t] = "finish"]
    /\ outcome' = [outcome EXCEPT ![t] = [kind |-> kind, why |-> why]]

Goto(t, where) ==
    /\ pc' = [pc EXCEPT ![t] = where]
    /\ UNCHANGED outcome

\* matches!(buf.trim(), "y" | "Y" | "o" | "O" | "oui" | "Oui")
yes(buf) == buf \in {"y", "Y", "o", "O", "oui", "Oui"}

\* Mutant of proceed: the dry-run return is missing.
proceed_without_dry_run(t) ==
    /\ log' = [log EXCEPT ![t].calls = @ + 1]
    /\ Goto(t, "convert")

\* process_one after the overwrite match let it through.
proceed(t) ==
    IF opt.dry_run
    THEN /\ log' = [log EXCEPT ![t].calls = @ + 1, ![t].reports = @ + 1]
         /\ Return(t, "Success", "dry-run")
    ELSE /\ log' = [log EXCEPT ![t].calls = @ + 1]
         /\ Goto(t, "convert")

\* Mutant of process_one_resolve: the Skip arm does not return.
process_one_resolve_skip_falls_through(t) ==
    IF exists(fs, tasks[t].out) /\ opt.overwrite = "Prompt" /\ ~opt.dry_run
    THEN /\ log' = [log EXCEPT ![t].calls = @ + 1]
         /\ Goto(t, "prompt")
    ELSE proceed(t)

\* Mutant of process_one_resolve: the Replace arm returns like the Skip arm.
process_one_resolve_replace_returns(t) ==
    IF exists(fs, tasks[t].out) /\ opt.overwrite \in {"Skip", "Replace"}
    THEN /\ log' = [log EXCEPT ![t].calls = @ + 1]
         /\ Return(t, "Skipped", "exists")
    ELSE IF exists(fs, tasks[t].out) /\ opt.overwrite = "Prompt" /\ ~opt.dry_run
    THEN /\ log' = [log EXCEPT ![t].calls = @ + 1]
         /\ Goto(t, "prompt")
    ELSE proceed(t)

\* process_one up to its first blocking point: the overwrite match on
\* out_path.exists(), then the dry-run report.
process_one_resolve(t) ==
    IF exists(fs, tasks[t].out) /\ opt.overwrite = "Skip"
    THEN /\ log' = [log EXCEPT ![t].calls = @ + 1]
         /\ Return(t, "Skipped", "exists")
    ELSE IF exists(fs, tasks[t].out) /\ opt.overwrite = "Prompt" /\ ~opt.dry_run
    THEN /\ log' = [log EXCEPT ![t].calls = @ + 1]
         /\ Goto(t, "prompt")
    ELSE proceed(t)

\* A pool thread takes a task: the closure sets current_file under the lock
\* (GUI) and calls process_one.  Threads take tasks in no fixed order, but
\* a pool of one thread runs the Vec from its front.
worker_begin(t) ==
    /\ phase = "workers"
    /\ pc[t] = "queued"
    /\ Cardinality(Busy) < PoolThreads
    /\ PoolThreads = 1 => \A u \in 1..(t - 1) : pc[u] # "queued"
    /\ status' = IF session.frontend = "gui"
                 THEN [status EXCEPT !.current_file = tasks[t].src] ELSE status
    /\ process_one_resolve(t)
    /\ UNCHANGED <<session, fs, dirs, pool, opt, stdin, is_converting, phase, tasks,
                   exit, runs, start, prev, pre>>

\* process_one, the read from stdin returns.
process_one_prompt(t) ==
    /\ phase = "workers"
    /\ pc[t] = "prompt"
    /\ log' = [log EXCEPT ![t].reads = @ + 1]
    /\ IF ~yes(stdin)
       THEN Return(t, "Skipped", "declined")
       ELSE Goto(t, "convert")
    /\ UNCHANGED <<session, fs, dirs, pool, opt, stdin, is_converting, status, phase,
                   tasks, exit, runs, start, prev, pre>>

\* The file system after ffmpeg has written path from source e.
written(f, path, e) == [p \in DOMAIN f \cup {path} |-> IF p = path THEN e ELSE f[p]]

\* process_one: create_dir_all(parent)?, run_ffmpeg_convert(in, out)?
process_one_convert(t) ==
    /\ phase = "workers"
    /\ pc[t] = "convert"
    /\ LET e   == tasks[t].src
           out == tasks[t].out
       IN  IF ~create_dir_all_ok(dirs, out.dir)
           THEN /\ log' = [log EXCEPT ![t].mkdirs = @ + 1]
                /\ Return(t, "Failed", "create_dir_all")
                /\ UNCHANGED <<fs, dirs>>
           ELSE /\ log' = [log EXCEPT ![t].mkdirs = @ + 1, ![t].ffmpeg = @ + 1]
                /\ dirs' = IF out.dir[1] = InRoot[1] THEN dirs ELSE dirs \cup {out.dir}
                /\ fs' = IF ffmpeg_writes(e) THEN written(fs, out, e) ELSE fs
                /\ IF ~ffmpeg_success(e) THEN Return(t, "Failed", "ffmpeg")
                   ELSE IF opt.verify THEN Goto(t, "verify")
                   ELSE Return(t, "Success", "converted")
    /\ UNCHANGED <<session, pool, opt, stdin, is_converting, status, phase, tasks,
                   exit, runs, start, prev, pre>>

\* Mutant of process_one_verify: the answer of verify_bitperfect is not looked at.
process_one_verify_accepts_mismatch(t) ==
    /\ phase = "workers"
    /\ pc[t] = "verify"
    /\ log' = [log EXCEPT ![t].verifies = @ + 1]
    /\ LET ok == verify_bitperfect(fs, tasks[t].src, tasks[t].out)
       IN  IF ok = "err" THEN Return(t, "Failed", "decode")
           ELSE Return(t, "Success", "verified")
    /\ UNCHANGED <<session, fs, dirs, pool, opt, stdin, is_converting, status, phase,
                   tasks, exit, runs, start, prev, pre>>

\* process_one: verify_bitperfect(in, out)?, and the check of its answer.
process_one_verify(t) ==
    /\ phase = "workers"
    /\ pc[t] = "verify"
    /\ log' = [log EXCEPT ![t].verifies = @ + 1]
    /\ LET ok == verify_bitperfect(fs, tasks[t].src, tasks[t].out)
       IN  IF ok = "err" THEN Return(t, "Failed", "decode")
           ELSE IF ok = "false" THEN Return(t, "Failed", "mismatch")
           ELSE Return(t, "Success", "verified")
    /\ UNCHANGED <<session, fs, dirs, pool, opt, stdin, is_converting, status, phase,
                   tasks, exit, runs, start, prev, pre>>

\* Mutant of worker_finish: a failed task is counted twice.
worker_finish_counts_failure_twice(t) ==
    /\ phase = "workers"
    /\ pc[t] = "finish"
    /\ pc' = [pc EXCEPT ![t] = "done"]
    /\ status' = IF session.frontend = "gui"
                 THEN [status EXCEPT
                         !.completed_files = IF outcome[t].kind = "Failed" THEN @ + 2 ELSE @ + 1,
                         !.errors = IF outcome[t].kind = "Failed"
                                    THEN Append(@, [src |-> tasks[t].src, msg |-> outcome[t].why])
                                    ELSE @]
                 ELSE status
    /\ UNCHANGED <<session, fs, dirs, pool, opt, stdin, is_converting, phase, tasks,
                   outcome, exit, runs, log, start, prev, pre>>

\* Mutant of worker_finish: the count and the message of a failed task are
\* written in two critical sections.
worker_finish_in_two_sections(t) ==
    /\ phase = "workers"
    /\ pc[t] \in {"finish", "counted"}
    /\ pc' = [pc EXCEPT ![t] = IF pc[t] = "finish" /\ outcome[t].kind = "Failed"
                                THEN "counted" ELSE "done"]
    /\ status' = IF session.frontend # "gui" THEN status
                 ELSE IF pc[t] = "finish"
                 THEN [status EXCEPT !.completed_files = @ + 1]
                 ELSE [status EXCEPT
                         !.errors = Append(@, [src |-> tasks[t].src, msg |-> outcome[t].why])]
    /\ UNCHANGED <<session, fs, dirs, pool, opt, stdin, is_converting, phase, tasks,
                   outcome, exit, runs, log, start, prev, pre>>

\* The closure after process_one: the progress update under the lock (GUI),
\* and res handed to collect.
worker_finish(t) ==
    /\ phase = "workers"
    /\ pc[t] = "finish"
    /\ pc' = [pc EXCEPT ![t] = "done"]
    /\ status' = IF session.frontend = "gui"
                 THEN [status EXCEPT
                         !.completed_files = @ + 1,
                         !.errors = IF outcome[t].kind = "Failed"
                                    THEN Append(@, [src |-> tasks[t].src, msg |-> outcome[t].why])
                                    ELSE @]
                 ELSE status
    /\ UNCHANGED <<session, fs, dirs, pool, opt, stdin, is_converting, phase, tasks,
                   outcome, exit, runs, log, start, prev, pre>>

\* Mutant of AllDone: the map is left when its first result is in.
AnyDone == \E t \in Tasks : pc[t] = "done"

\* collect() of the parallel map has every result.
AllDone == \A t \in Tasks : pc[t] = "done"

Failed == {t \in Tasks : outcome[t].kind = "Failed"}

\* Mutant of run_cli_end: one failure still returns Ok.
run_cli_end_forgives_one ==
    /\ session.frontend = "cli"
    /\ phase = "workers"
    /\ AllDone
    /\ exit' = IF Cardinality(Failed) > 1
               THEN [kind |-> "Failed", failed |-> Cardinality(Failed)]
               ELSE [kind |-> "Ok", failed |-> 0]
    /\ phase' = "finished"
    /\ UNCHANGED <<session, fs, dirs, pool, opt, stdin, is_converting, status, tasks,
                   pc, outcome, runs, log, start, prev, pre>>

\* run_cli after collect(): count the Err results, return.
run_cli_end ==
    /\ session.frontend = "cli"
    /\ phase = "workers"
    /\ AllDone
    /\ exit' = IF Cardinality(Failed) > 0
               THEN [kind |-> "Failed", failed |-> Cardinality(Failed)]
               ELSE [kind |-> "Ok", failed |-> 0]
    /\ phase' = "finished"
    /\ UNCHANGED <<session, fs, dirs, pool, opt, stdin, is_converting, status, tasks,
                   pc, outcome, runs, log, start, prev, pre>>

\* Mutant of run_conversion_thread_end: the thread returns without the mark.
run_conversion_thread_end_without_mark ==
    /\ session.frontend = "gui"
    /\ phase = "workers"
    /\ AllDone
    /\ status' = [status EXCEPT !.current_file = 0]
    /\ phase' = "finished"
    /\ UNCHANGED <<session, fs, dirs, pool, opt, stdin, is_converting, tasks, pc,
                   outcome, exit, runs, log, start, prev, pre>>

\* run_conversion_thread after collect(): mark as done, return Ok(()).
run_conversion_thread_end ==
    /\ session.frontend = "gui"
    /\ phase = "workers"
    /\ AllDone
    /\ status' = [status EXCEPT !.is_done = TRUE, !.current_file = 0]
    /\ phase' = "finished"
    /\ UNCHANGED <<session, fs, dirs, pool, opt, stdin, is_converting, tasks, pc,
                   outcome, exit, runs, log, start, prev, pre>>

Next ==
    \/ \E o \in CliOptions, ffmpeg \in BOOLEAN : \E line \in Lines(o) :
           run_cli_begin(o, line, ffmpeg)
    \/ run_cli_end
    \/ \E click \in BOOLEAN : update(click)
    \/ \E ffmpeg \in BOOLEAN : run_conversion_thread_begin(ffmpeg)
    \/ run_conversion_thread_end
    \/ \E t \in Tasks : worker_begin(t)
    \/ \E t \in Tasks : process_one_prompt(t)
    \/ \E t \in Tasks : process_one_convert(t)
    \/ \E t \in Tasks : process_one_verify(t)
    \/ \E t \in Tasks : worker_finish(t)

Spec == Init /\ [][Next]_vars

\* The steps of a run that has started: the thread of the run and the
\* threads of the pool.
Run ==
    \/ run_cli_end
    \/ \E ffmpeg \in BOOLEAN : run_conversion_thread_begin(ffmpeg)
    \/ run_conversion_thread_end
    \/ \E t \in Tasks : worker_begin(t)
    \/ \E t \in Tasks : process_one_prompt(t)
    \/ \E t \in Tasks : process_one_convert(t)
    \/ \E t \in Tasks : process_one_verify(t)
    \/ \E t \in Tasks : worker_finish(t)

\* The threads of a run are scheduled, every ffmpeg subprocess exits and
\* every read from the operator returns; and the window draws frame after
\* frame while is_converting (ctx.request_repaint, lines 401-403).  Nothing
\* makes the operator click Convert.
FairSpec == Spec /\ WF_vars(Run) /\ WF_vars(update(FALSE))

(***************************************************************************)
(* Properties.                                                             *)
(***************************************************************************)
Gui == session.frontend = "gui"

Cli == session.frontend = "cli"

\* The run got past its preconditions: its task list is installed.
Passed == phase \in {"workers", "finished"} /\ tasks # <<>>

Ended == phase = "finished" /\ tasks # <<>>

OfKind(k) == {t \in Tasks : outcome[t].kind = k}

\* What the window shows of a finished run (update, lines 390-395).
banner ==
    IF status.total_files > 0 /\ status.is_done
    THEN (IF status.errors = <<>> THEN "completed successfully" ELSE "completed with errors")
    ELSE "none"

\* C1: in a GUI run that passed its preconditions, once is_done is set every
\* task has gone through process_one exactly once and is counted exactly
\* once: completed_files = total_files = number of tasks, and there are as
\* many error messages as tasks whose process_one returned Err, one for each
\* such task.
C1_EveryTaskRecordedOnce ==
    /\ \A t \in Tasks : log[t].calls <= 1
    /\ (Gui /\ Passed /\ status.is_done) =>
          /\ \A t \in Tasks : pc[t] = "done" /\ log[t].calls = 1
          /\ status.total_files = Len(tasks)
          /\ status.completed_files = status.total_files
          /\ Len(status.errors) = Cardinality(Failed)
          /\ \A t \in Failed : \E i \in 1..Len(status.errors) :
                 status.errors[i].src = tasks[t].src

C1_Witness ==
    /\ Gui /\ Passed /\ status.is_done
    /\ Len(tasks) = 2
    /\ Cardinality(Failed) = 1
    /\ Len(status.errors) = 1

\* C2: within one run, completed_files never decreases from one state of the
\* status record to the next, and in every state it is at most total_files.
C2_CompletedMonotone ==
    /\ [](status.completed_files <= status.total_files)
    /\ [][runs' = runs => status'.completed_files >= status.completed_files]_vars

C2_Witness ==
    /\ Gui /\ phase = "workers"
    /\ status.total_files = 2
    /\ status.completed_files = 1
    /\ \E t \in Tasks : pc[t] = "convert"

\* process_one run from entry to return on file system f and directories d,
\* as one worker that nothing interleaves with runs it.
alone(f, d, tk) ==
    LET f2 == IF ffmpeg_writes(tk.src) THEN written(f, tk.out, tk.src) ELSE f
        d2 == IF tk.out.dir[1] = InRoot[1] THEN d ELSE d \cup {tk.out.dir}
    IN  IF exists(f, tk.out) /\ opt.overwrite = "Skip"
            THEN [kind |-> "Skipped", fs |-> f, dirs |-> d]
        ELSE IF exists(f, tk.out) /\ opt.overwrite = "Prompt" /\ ~opt.dry_run /\ ~yes(stdin)
            THEN [kind |-> "Skipped", fs |-> f, dirs |-> d]
        ELSE IF opt.dry_run
            THEN [kind |-> "Success", fs |-> f, dirs |-> d]
        ELSE IF ~create_dir_all_ok(d, tk.out.dir)
            THEN [kind |-> "Failed", fs |-> f, dirs |-> d]
        ELSE IF ~ffmpeg_success(tk.src)
            THEN [kind |-> "Failed", fs |-> f2, dirs |-> d2]
        ELSE IF opt.verify /\ verify_bitperfect(f2, tk.src, tk.out) # "true"
            THEN [kind |-> "Failed", fs |-> f2, dirs |-> d2]
        ELSE [kind |-> "Success", fs |-> f2, dirs |-> d2]

\* The outcomes of tasks i.. of the run when one worker takes them in turn.
RECURSIVE one_worker(_, _, _)
one_worker(i, f, d) ==
    IF i > Len(tasks) THEN <<>>
    ELSE LET r == alone(f, d, tasks[i])
         IN  <<r.kind>> \o one_worker(i + 1, r.fs, r.dirs)

HowMany(kinds, k) == Cardinality({i \in 1..Len(kinds) : kinds[i] = k})

\* C3: when a run has ended, its Success, Skipped and Failed tasks add up to
\* the tasks discovered, and each of the three counts is what one worker
\* taking the tasks in turn from the same starting file system gets.
C3_CountsWhateverTheWorkers ==
    Ended =>
        /\ Cardinality(OfKind("Success")) + Cardinality(OfKind("Skipped"))
               + Cardinality(OfKind("Failed")) = Len(tasks)
        /\ \A k \in {"Success", "Skipped", "Failed"} :
               Cardinality(OfKind(k)) = HowMany(one_worker(1, start.fs, start.dirs), k)

\* C3 holds of every run on a pool of one thread, and of every run whose
\* tasks have different destinations.
C3_OneWorkerOrApart ==
    (PoolThreads = 1 \/ \A t, u \in Tasks : t # u => tasks[t].out # tasks[u].out)
        => C3_CountsWhateverTheWorkers

\* C4: in a run that passed its preconditions every task is attempted
\* whatever becomes of the others, and the run's final result is success
\* exactly when no task failed: run_cli returns Ok or the error that counts
\* the failed tasks, and the window shows "completed successfully" or
\* "completed with errors" above one message per failed task.
C4_AllAttemptedResultCountsFailures ==
    Ended =>
        /\ \A t \in Tasks : log[t].calls = 1 /\ outcome[t].kind # "none"
        /\ Cli => /\ (exit.kind = "Ok") = (Failed = {})
                  /\ exit.kind \in {"Ok", "Failed"}
                  /\ exit.failed = Cardinality(Failed)
        /\ Gui => /\ (banner = "completed successfully") = (Failed = {})
                  /\ banner \in {"completed successfully", "completed with errors"}
                  /\ Len(status.errors) = Cardinality(Failed)

C4_Witness ==
    /\ Ended /\ Cli
    /\ Len(tasks) = 2
    /\ outcome[1].kind = "Success" /\ outcome[2].kind = "Failed"
    /\ exit = [kind |-> "Failed", failed |-> 1]

\* The parallelism degree the current run was configured with.
Configured == IF opt.jobs = <<>> THEN NumCpus ELSE num_threads(opt.jobs[1])

\* C5: at every moment of every run, also of a later run of a GUI session
\* started with another jobs value, at most as many tasks are inside
\* process_one as the run's configured parallelism degree.
C5_AtMostConfiguredTasksRunning ==
    phase = "workers" => Cardinality(InProcessOne) <= Configured

\* C6: the read from the operator happens only in a CLI run with policy
\* Prompt that is not simulated: no task of a GUI run and no task of a
\* simulated run ever waits at the read or has read.
C6_ReadOnlyInCliPrompt ==
    \A t \in Tasks :
        (pc[t] = "prompt" \/ log[t].reads > 0) =>
            Cli /\ opt.overwrite = "Prompt" /\ ~opt.dry_run

\* C7: in a simulated run with policy Prompt, a task whose destination
\* exists ends as under Skip: Skipped, no would-be conversion reported, no
\* read from the operator.
C7_SimulatedPromptIsSkip ==
    (Passed /\ opt.dry_run /\ opt.overwrite = "Prompt") =>
        \A t \in Tasks :
            (exists(start.fs, tasks[t].out) /\ pc[t] \in {"finish", "done"}) =>
                /\ outcome[t].kind = "Skipped"
                /\ log[t].reports = 0
                /\ log[t].reads = 0

\* C8: in a simulated run, whatever the policy, no directory is created, no
\* file is written, neither transcoder nor verifier runs, the file system
\* stays what it was when the run started, and when the run has ended every
\* task has its result.
C8_SimulatedRunLeavesNoTrace ==
    (Passed /\ opt.dry_run) =>
        /\ fs = start.fs
        /\ dirs = start.dirs
        /\ \A t \in Tasks :
               log[t].mkdirs = 0 /\ log[t].ffmpeg = 0 /\ log[t].verifies = 0
        /\ Ended => \A t \in Tasks : pc[t] = "done" /\ outcome[t].kind # "none"

C8_Witness ==
    /\ Ended /\ opt.dry_run /\ opt.overwrite = "Replace"
    /\ Len(tasks) = 2
    /\ \E t \in Tasks : exists(fs, tasks[t].out)
    /\ \E t \in Tasks : ~exists(fs, tasks[t].out)
    /\ \A t \in Tasks : outcome[t].kind = "Success"

\* The second of two consecutive runs with policy Skip, neither simulated.
SecondSkipRun == Passed /\ prev.skip_run /\ opt.overwrite = "Skip" /\ ~opt.dry_run

\* C9 as stated: the second of two consecutive real Skip runs invokes the
\* transcoder for no task and every task of it ends Skipped, also a task
\* whose transcode failed in the first run.
C9_SecondSkipRunTranscodesNothing ==
    SecondSkipRun =>
        \A t \in Tasks :
            /\ log[t].ffmpeg = 0
            /\ pc[t] \in {"finish", "done"} => outcome[t].kind = "Skipped"

\* C9 amended: in the second of two consecutive real Skip runs, the
\* transcoder is invoked for no task that the first run converted or
\* skipped, nor for any task whose destination file exists when the second
\* run starts (a failed transcode that left its output); each such task ends
\* Skipped.  Every task the first run converted or skipped has its
\* destination at the start of the second.
C9_SecondSkipRunSkipsWhatExists ==
    SecondSkipRun =>
        \A t \in Tasks :
            /\ tasks[t].src \in prev.ok => exists(start.fs, tasks[t].out)
            /\ exists(start.fs, tasks[t].out) =>
                  /\ log[t].ffmpeg = 0 /\ log[t].mkdirs = 0 /\ log[t].reads = 0
                  /\ pc[t] \in {"finish", "done"} => outcome[t].kind = "Skipped"

C9_Witness ==
    /\ SecondSkipRun /\ Ended
    /\ Len(tasks) = 2
    /\ tasks[1].src \in prev.ok /\ outcome[1].kind = "Skipped"
    /\ tasks[2].src \notin prev.ok /\ outcome[2].kind = "Failed" /\ log[2].ffmpeg = 1

\* A real run with policy Replace that has ended.
ReplaceRunEnded == Ended /\ opt.overwrite = "Replace" /\ ~opt.dry_run

\* C10 as stated: a real run with policy Replace invokes the transcoder
\* exactly once for every task and reads nothing from the operator.
C10_ReplaceTranscodesEveryTask ==
    ReplaceRunEnded => \A t \in Tasks : log[t].ffmpeg = 1 /\ log[t].reads = 0

\* C10 amended: a real run with policy Replace reads nothing from the
\* operator and invokes the transcoder exactly once for every task, whether
\* or not its destination exists, except for a task whose destination
\* directory cannot be created: that task ends Failed on create_dir_all and
\* the transcoder is not invoked for it.
C10_ReplaceTranscodesUnlessNoDirectory ==
    ReplaceRunEnded =>
        \A t \in Tasks :
            /\ log[t].reads = 0
            /\ log[t].ffmpeg <= 1
            /\ log[t].ffmpeg = 0 =>
                  /\ outcome[t] = [kind |-> "Failed", why |-> "create_dir_all"]
                  /\ ~exists(start.fs, tasks[t].out)
                  /\ tasks[t].out.dir \notin dirs

C10_Witness ==
    /\ ReplaceRunEnded
    /\ Len(tasks) = 2
    /\ exists(start.fs, tasks[1].out) /\ log[1].ffmpeg = 1
    /\ ~exists(start.fs, tasks[2].out) /\ log[2].ffmpeg = 1

\* The precondition check of the run that failed, if one did.
Stopped ==
    IF pre.tool = 1 /\ ~pre.available THEN "ToolUnavailable"
    ELSE IF pre.discovery = 1 /\ phase = "finished" /\ tasks = <<>> THEN "NoInputFiles"
    ELSE "none"

\* C11: a run calls ensure_ffmpeg_available once and collect_tasks at most
\* once, both before the task list is installed and before a worker starts:
\* while workers run, and whenever process_one has been called, the tool
\* check has run and succeeded.  A run whose tool check failed has ended
\* with ToolUnavailable (the error run_cli returns, the error the GUI thread
\* records with is_done), without discovery, with no task and so no call of
\* process_one, and with the file system and the directories as they were
\* when it started.  The same holds of a run whose discovery was empty, with
\* NoInputFiles.
C11_PreconditionsBeforeAnyWorker ==
    /\ pre.tool <= 1 /\ pre.discovery <= pre.tool
    /\ phase = "workers" => pre = checked(TRUE) /\ tasks # <<>>
    /\ \A t \in Tasks : pc[t] # "queued" => pre = checked(TRUE)
    /\ pre.tool = 1 /\ ~pre.available => pre.discovery = 0
    /\ Stopped # "none" =>
          /\ phase = "finished"
          /\ Tasks = {}
          /\ fs = start.fs /\ dirs = start.dirs
          /\ Cli => exit = [kind |-> Stopped, failed |-> 0]
          /\ Gui => status.is_done /\ status.errors = <<[src |-> 0, msg |-> Stopped]>>
          /\ Gui => status.total_files = 0 /\ status.completed_files = 0

\* A second run is stopped by the tool check after the first one converted.
C11_Witness ==
    /\ Stopped = "ToolUnavailable"
    /\ runs = 2
    /\ DOMAIN fs # {}
    /\ collect_tasks(session.input, session.tree, session.out_root) # <<>>

\* Tasks whose completion is counted in completed_files.
Counted == {t \in Tasks : pc[t] \notin {"queued", "prompt", "convert", "verify", "finish"}}

\* C12: the status record changes only in whole critical sections, so every
\* state is one a frame of the window can read under the lock.  In each of
\* them, in a GUI run that passed its preconditions, completed_files is the
\* number of tasks whose completion was recorded, and the error list holds
\* exactly one message for each of those tasks that failed and none for any
\* other task.
C12_CountAndMessageTogether ==
    (Gui /\ Passed) =>
        /\ status.completed_files = Cardinality(Counted)
        /\ Len(status.errors) = Cardinality(Counted \cap Failed)
        /\ \A t \in Counted \cap Failed :
               \E i \in 1..Len(status.errors) : status.errors[i].src = tasks[t].src
        /\ \A i \in 1..Len(status.errors) :
               \E t \in Counted \cap Failed : status.errors[i].src = tasks[t].src

\* One failed task is counted with its message while another task has
\* failed and is not yet counted.
C12_Witness ==
    /\ Gui /\ phase = "workers"
    /\ Len(status.errors) = 1 /\ status.completed_files = 1
    /\ Cardinality(Failed) = 2
    /\ \E t \in Failed : pc[t] = "finish"

\* The overwrite match of process_one let task t through: its destination
\* did not exist under Skip, and the operator, if asked, said yes.
Proceeded(t) ==
    /\ log[t].calls = 1
    /\ ~(opt.overwrite = "Skip" /\ exists(start.fs, tasks[t].out))
    /\ log[t].reads > 0 => yes(stdin)

\* No other task of the run writes the destination of task t.
Apart(t) == \A u \in Tasks : u # t => tasks[u].out # tasks[t].out

Returned(t) == pc[t] \in {"finish", "done"}

\* C13: for every task, the directory is created and the transcoder invoked
\* only in a run that is not simulated and after the overwrite match let the
\* task through, each at most once; the verifier is invoked at most once,
\* only when verify is set and only after the transcoder was invoked for the
\* task and exited with success; with verify set, a task whose transcode
\* succeeded is verified before it returns; and a verified task that no
\* other task shares its destination with returns Success exactly when the
\* two digests are equal, and Failed with the mismatch when they differ.
C13_ResolveConvertVerify ==
    \A t \in Tasks :
        /\ log[t].mkdirs <= 1 /\ log[t].ffmpeg <= log[t].mkdirs /\ log[t].verifies <= 1
        /\ (pc[t] = "convert" \/ log[t].mkdirs > 0) => ~opt.dry_run /\ Proceeded(t)
        /\ (pc[t] = "verify" \/ log[t].verifies > 0) =>
               opt.verify /\ log[t].ffmpeg = 1 /\ ffmpeg_success(tasks[t].src)
        /\ (Returned(t) /\ opt.verify /\ log[t].ffmpeg = 1 /\ ffmpeg_success(tasks[t].src))
               => log[t].verifies = 1
        /\ (Returned(t) /\ log[t].verifies = 1 /\ Apart(t)) =>
               LET ok == verify_bitperfect(fs, tasks[t].src, tasks[t].out)
               IN  /\ (outcome[t].kind = "Success") = (ok = "true")
                   /\ ok = "false" => outcome[t] = [kind |-> "Failed", why |-> "mismatch"]

\* A task was transcoded with success, then verified, and failed on the
\* digests; the file the transcoder wrote is there.
C13_Witness ==
    \E t \in Tasks :
        /\ pc[t] = "done" /\ Apart(t)
        /\ log[t].ffmpeg = 1 /\ log[t].verifies = 1 /\ ffmpeg_success(tasks[t].src)
        /\ exists(fs, tasks[t].out)
        /\ verify_bitperfect(fs, tasks[t].src, tasks[t].out) = "false"
        /\ outcome[t].kind = "Failed"

\* A file name with only its final extension replaced by "m4a".
final_extension_replaced(name) == SubSeq(name, 1, Len(name) - 1) \o <<"m4a">>

\* C14: the destination of every task is its source path with only the
\* final extension replaced by m4a, the rest of the base name kept also when
\* it holds dots: beside the source when there is no output root, and below
\* the output root, under the source's path relative to the input
\* directory, when there is one.
C14_OnlyFinalExtensionReplaced ==
    \A t \in Tasks :
        LET file == SrcPath(tasks[t].src)
            dir  == IF session.out_root = NoRoot THEN file.dir
                    ELSE IF session.input = 0
                    THEN session.out_root \o strip_prefix(file, InRoot).dir
                    ELSE session.out_root
        IN  tasks[t].out = [dir |-> dir, name |-> final_extension_replaced(file.name)]

\* Tasks t and u are both between create_dir_all and the exit of ffmpeg.
Transcoding(t, u) == pc[t] = "convert" /\ pc[u] = "convert"

\* C15: no two tasks of a run have the same destination path, and so no two
\* workers are in the transcoder step for the same destination file at the
\* same time.
C15_NoSharedDestination ==
    \A t, u \in Tasks :
        t # u => tasks[t].out # tasks[u].out /\ ~(Transcoding(t, u) /\ tasks[t].out = tasks[u].out)

\* The entries of the input that are regular files named *.flac in some
\* casing of the extension.
Matching ==
    {e \in session.tree :
        /\ Candidates[e].regular
        /\ Len(Candidates[e].name) >= 2
        /\ Candidates[e].name[Len(Candidates[e].name)] \in {"flac", "FLAC", "Flac"}}

\* The error messages the window shows (update, lines 373-388).
shown_errors == IF status.total_files > 0 THEN status.errors ELSE <<>>

\* C16: the task list of a run holds exactly one task for every matching
\* entry of the input and none for any other entry; and a run whose
\* discovery found nothing has no task and reports NoInputFiles as a
\* failure: run_cli returns that error, the window shows that message.
C16_OneTaskPerMatchElseNoInputFiles ==
    /\ Passed =>
          /\ {tasks[t].src : t \in Tasks} = Matching
          /\ Len(tasks) = Cardinality(Matching)
    /\ (phase = "finished" /\ pre.discovery = 1 /\ Matching = {}) =>
          /\ Tasks = {}
          /\ \A t \in Tasks : log[t].calls = 0
          /\ Cli => exit.kind = "NoInputFiles"
          /\ Gui => \E i \in 1..Len(shown_errors) : shown_errors[i].msg = "NoInputFiles"

\* C17: with the threads scheduled, the subprocesses exiting and the reads
\* returning, every run that has started ends: a GUI run sets is_done, a CLI
\* run returns.  is_done is set only when every task has returned, has its
\* outcome and is counted, also when tasks failed, and once set it stays
\* set as long as no new run begins.
C17_EveryRunEnds ==
    /\ [](Gui /\ phase \in {"spawned", "workers"} => <>status.is_done)
    /\ [](Cli /\ phase = "workers" => <>(phase = "finished"))
    /\ [](status.is_done =>
            /\ phase = "finished"
            /\ \A t \in Tasks : pc[t] = "done" /\ outcome[t].kind # "none"
            /\ status.completed_files = Len(tasks))
    /\ [][status.is_done /\ runs' = runs => status'.is_done]_vars

\* A run of two tasks, one of which failed, has set is_done.
C17_Witness ==
    /\ Gui /\ status.is_done
    /\ Len(tasks) = 2
    /\ Cardinality(Failed) = 1
    /\ status.completed_files = 2

\* C19: in the GUI a run starts only when no run is active: the thread of
\* the run before has set is_done and returned, every task of that run is
\* done, and a frame has read is_done and cleared is_converting.  So the
\* status record a run resets is written by that run's workers only, and in
\* every state completed_files counts the tasks of the current run whose
\* completion was recorded.
C19_OneRunAtATime ==
    /\ [][(Gui /\ runs' # runs) =>
            /\ ~is_converting
            /\ phase \in {"idle", "finished"}
            /\ \A t \in Tasks : pc[t] = "done"
            /\ runs > 0 => status.is_done /\ status.completed_files = status.total_files
            /\ status' = ConversionStatus_default]_vars
    /\ [](Gui /\ phase \in {"spawned", "workers"} => is_converting)
    /\ [](Gui => status.completed_files = Cardinality(Counted))

\* The second run of a GUI session, after a first run that wrote files, has
\* counted one of its two tasks.
C19_Witness ==
    /\ Gui /\ runs = 2 /\ phase = "workers"
    /\ DOMAIN start.fs # {}
    /\ Len(tasks) = 2
    /\ status.completed_files = 1

\* The affirmative tokens of the prompt, whatever their casing.
affirmative(buf) == to_ascii_lowercase(buf) \in {"y", "o", "oui"}

\* C18: in a CLI run with policy Prompt, a task whose destination exists and
\* whose read from the operator has returned goes on to the transcoder when
\* the answer is an affirmative token in any casing, and otherwise (another
\* answer, an empty one, a failed read) returns Skipped without the
\* transcoder having been invoked.
C18_AnswerInAnyCasing ==
    \A t \in Tasks :
        (Cli /\ opt.overwrite = "Prompt" /\ log[t].reads > 0) =>
            IF affirmative(stdin)
            THEN pc[t] = "convert" \/ log[t].mkdirs = 1
            ELSE /\ outcome[t] = [kind |-> "Skipped", why |-> "declined"]
                 /\ log[t].mkdirs = 0 /\ log[t].ffmpeg = 0

\* C20: in the GUI, whenever a run has ended (is_done is set), whether all
\* its tasks were processed or a precondition stopped it, the front end is
\* eventually not converting, so that Convert can start a new run.
C20_EndedRunLeavesConverting ==
    [](Gui /\ status.is_done => <>~is_converting)

====
